---- MODULE Spec2Model ----
(***************************************************************************)
(* Long-running operation manager (agents/long_running_manager.py, kept in *)
(* src/memory/sql_session.py from line 65 on) over the SQLite session      *)
(* store.  Every session.read / session.write is one atomic step (the      *)
(* store's lock, sql_session.py:29,39); everything between two store       *)
(* accesses of a thread is local to that thread.  Supervisor calls run on  *)
(* caller threads, every started operation has its own runner thread.      *)
(*                                                                         *)
(* Spec / FairSpec: the operation manager.  FailSpec: the same with store  *)
(* calls that can raise in the runner.  StoreSpec: SQLiteSession on its    *)
(* own, its values going through json.dumps / json.loads.  ListSpec:       *)
(* list_operations over a store with damaged rows.  AgentSpec:             *)
(* OpsCoordinatorAgent.handle_request and its workers (agents/ops_agent.py)*)
(***************************************************************************)
EXTENDS Integers, Sequences, FiniteSets, TLC

\* ------------------------------------------------------------- bounds
MaxDuration == 2
MaxCalls == 2

\* operation identifiers (uuid4 strings in the code)
OpIds == {1, 2}
\* the identifiers start_operation hands out here; the others stay unknown ids
Startable == {1}
\* duration is an unchecked int (CLI: int(parts[1])): negative, zero, positive
Durations == (0 - 1)..MaxDuration
\* threads that call the supervisor API
Callers == {"A", "B"}
\* int(time.time()): the wall clock, one instant
Times == {1}

\* ------------------------------------------------------------- values
\* Python's None
NoneVal == [py_none |-> TRUE]
\* the empty dict {}
EmptyDict == [k \in {} |-> 0]

\* `not v` for the values a read of a record can return (None or a dict)
Falsy(v) == v = NoneVal \/ DOMAIN v = {}

\* d.get("status") as a string; "none" when the key is missing
StatusOf(d) == IF "status" \in DOMAIN d THEN d["status"] ELSE "none"

\* d[k] = v on a dict
DictSet(d, k, v) == [x \in (DOMAIN d) \cup {k} |-> IF x = k THEN v ELSE d[x]]

\* d.update(e)
DictUpdate(d, e) == [x \in (DOMAIN d) \cup (DOMAIN e) |-> IF x \in DOMAIN e THEN e[x] ELSE d[x]]

\* caller-supplied metadata maps: none, an annotation, the reserved key status
MetadataInputs == {NoneVal, [test |-> "yes"], [status |-> "paused"], [status |-> "finished"]}

\* f"op:{op_id}:meta" and friends
Suffixes == {"meta", "progress", "result"}
\* a key built without the operation's id
Key_NoId(o, suffix) == <<1, suffix>>
Key(o, suffix) == <<o, suffix>>
Keys == OpIds \X Suffixes

CounterNames == {"ops_started_total", "ops_paused_total", "ops_resumed_total",
                 "ops_cancel_requested_total", "ops_cancelled_total",
                 "ops_heartbeat_total", "ops_finished_total"}

VARIABLES
    store,      \* session table: key -> stored value, NoneVal when no row
    pc,         \* runner thread of each operation: its position in _simulate_task
    loopi,      \* runner's loop variable i
    steps,      \* runner's local steps = max(1, duration)
    rmeta,      \* runner's local meta between its final read and write
    caller,     \* each caller thread: the call in flight and its local meta
    ret,        \* the latest return of a supervisor API call
    metrics,    \* Metrics counters
    ncalls,     \* number of pause/resume/cancel calls made so far
    oplog,      \* per operation, the messages logged about it (logger.info)
    cancelAt,   \* history: where the runner stood when a cancel landed
    pauseAt,    \* history: Progress.step when a pause landed on a running operation
    db,         \* SQLiteSession on its own: the session table, key -> row text
    written,    \* history: key -> the value of the latest write(key, value)
    got,        \* what the latest read() / all() on db returned
    request,    \* OpsCoordinatorAgent: the request handle_request is working on
    coord,      \* the thread in handle_request: its position and loop index
    wthread,    \* per worker: the state of its perform() for this request
    results,    \* handle_request's local list results
    asession,   \* the session the agents write to: key -> value
    out         \* what handle_request returned

\* the variables of the components the operation manager does not touch
storeVars == <<db, written, got>>
agentVars == <<request, coord, wthread, results, asession, out>>
elsewhere == <<storeVars, agentVars>>
\* the variables of the operation manager
managerVars == <<store, pc, loopi, steps, rmeta, caller, ret, metrics, ncalls, oplog, cancelAt, pauseAt>>

vars == <<store, pc, loopi, steps, rmeta, caller, ret, metrics, ncalls, oplog, cancelAt, pauseAt, elsewhere>>

\* session.read(key, default)
SessionRead(key, default) == IF store[key] = NoneVal THEN default ELSE store[key]

\* session.write(key, value): upsert
SessionWrite(key, value) == [store EXCEPT ![key] = value]

\* metrics.inc_counter(name)
IncCounter(name) == [metrics EXCEPT ![name] = @ + 1]

Max(a, b) == IF a >= b THEN a ELSE b

IdleCaller == [pc |-> "idle", kind |-> "none", op |-> 0, arg |-> 0, local |-> NoneVal]
\* what the latest call to return was, and what it returned
Returned(c, kind, o, ok) == [caller |-> c, kind |-> kind, op |-> o, ok |-> ok]
\* SQLiteSession on its own is not in use while the operation manager runs
NoTable == [k \in {} |-> 0]
NoCall == [op |-> "none"]
\* OpsCoordinatorAgent.workers, by name
Workers == {"worker-1", "worker-2"}
WorkerOrder == <<"worker-1", "worker-2">>
RequestIds == {"t1"}
\* f"{name}-last" and f"req-{id}"
LastKey(w) == <<"last", w>>
ReqKey(id) == <<"req", id>>
AgentKeys == {LastKey(w) : w \in Workers} \cup {ReqKey(id) : id \in RequestIds}
NoRequest == [id |-> "none", parallel |-> FALSE, kind |-> "none"]
\* a coordinator with an empty session and no request in hand
AgentIdle ==
    /\ request = NoRequest
    /\ coord = [pc |-> "idle", i |-> 0]
    /\ wthread = [w \in Workers |-> "none"]
    /\ results = <<>>
    /\ asession = [k \in AgentKeys |-> NoneVal]
    /\ out = NoneVal
NoReturn == [caller |-> "none", kind |-> "none", op |-> 0, ok |-> FALSE]
NoCancel == [mode |-> "none", step |-> 0]
NoPause == [on |-> FALSE, step |-> 0]

\* no runner thread, no call in flight, nothing counted or logged
ManagerIdle ==
    /\ pc = [o \in OpIds |-> "idle"]
    /\ loopi = [o \in OpIds |-> 0]
    /\ steps = [o \in OpIds |-> 0]
    /\ rmeta = [o \in OpIds |-> NoneVal]
    /\ caller = [c \in Callers |-> IdleCaller]
    /\ ret = NoReturn
    /\ metrics = [n \in CounterNames |-> 0]
    /\ ncalls = 0
    /\ oplog = [o \in OpIds |-> {}]
    /\ cancelAt = [o \in OpIds |-> NoCancel]
    /\ pauseAt = [o \in OpIds |-> NoPause]

\* the operation manager after import, on an empty store
ManagerInit ==
    /\ store = [k \in Keys |-> NoneVal]
    /\ ManagerIdle

Init ==
    /\ ManagerInit
    /\ db = NoTable /\ written = NoTable /\ got = NoCall
    /\ AgentIdle

\* ------------------------------------------------------------- start_operation
\* uuid.uuid4(): an identifier no operation has yet (the least one, by symmetry)
Unused == {o \in Startable : store[Key(o, "meta")] = NoneVal}
FreshId == CHOOSE o \in Unused : \A p \in Unused : o <= p

\* the initial Metadata dict
InitialMeta(duration, metadata, now) ==
    LET meta == [status |-> "running", duration |-> duration, created_at |-> now]
    IN  IF Falsy(metadata) THEN meta ELSE DictUpdate(meta, metadata)

\* the initial Progress dict
InitialProgress(duration) == [step |-> 0, total |-> duration]

\* start_operation with its two writes in the other order
StartWriteMeta_ProgressFirst(c) ==
    /\ caller[c].pc = "idle"
    /\ Unused # {}
    /\ \E duration \in Durations :
        /\ store' = SessionWrite(Key(FreshId, "progress"), InitialProgress(duration))
        /\ caller' = [caller EXCEPT ![c] =
              [pc |-> "start_progress", kind |-> "start", op |-> FreshId,
               arg |-> duration, local |-> NoneVal]]
    /\ UNCHANGED <<pc, loopi, steps, rmeta, ret, metrics, ncalls, oplog, cancelAt, pauseAt, elsewhere>>

\* op_id = uuid4(); build meta; session.write(op:<id>:meta, meta)
StartWriteMeta(c) ==
    /\ caller[c].pc = "idle"
    /\ Unused # {}
    /\ \E duration \in Durations, metadata \in MetadataInputs, now \in Times :
        /\ store' = SessionWrite(Key(FreshId, "meta"), InitialMeta(duration, metadata, now))
        /\ caller' = [caller EXCEPT ![c] =
              [pc |-> "start_progress", kind |-> "start", op |-> FreshId,
               arg |-> duration, local |-> NoneVal]]
    /\ UNCHANGED <<pc, loopi, steps, rmeta, ret, metrics, ncalls, oplog, cancelAt, pauseAt, elsewhere>>

\* session.write(op:<id>:progress, {"step": 0, "total": duration})
StartWriteProgress(c) ==
    /\ caller[c].pc = "start_progress"
    /\ store' = SessionWrite(Key(caller[c].op, "progress"), InitialProgress(caller[c].arg))
    /\ caller' = [caller EXCEPT ![c].pc = "start_spawn"]
    /\ UNCHANGED <<pc, loopi, steps, rmeta, ret, metrics, ncalls, oplog, cancelAt, pauseAt, elsewhere>>

\* steps = max(1, duration), the runner's first statement
StepsOf(duration) == Max(1, duration)

\* t.start(); inc ops_started_total; log; return op_id
StartSpawn(c) ==
    /\ caller[c].pc = "start_spawn"
    /\ LET o == caller[c].op IN
        /\ pc' = [pc EXCEPT ![o] = "check"]
        /\ loopi' = [loopi EXCEPT ![o] = 0]
        /\ steps' = [steps EXCEPT ![o] = StepsOf(caller[c].arg)]
        /\ metrics' = IncCounter("ops_started_total")
        /\ oplog' = [oplog EXCEPT ![o] = @ \cup {"Started"}]
        /\ caller' = [caller EXCEPT ![c] = IdleCaller]
        /\ ret' = Returned(c, "start", o, TRUE)
    /\ UNCHANGED <<store, rmeta, ncalls, cancelAt, pauseAt, elsewhere>>

start_operation(c) == StartWriteMeta(c) \/ StartWriteProgress(c) \/ StartSpawn(c)

\* ------------------------------------------------------------- pause / resume / cancel
SupervisorKinds == {"pause", "resume", "cancel"}

\* the status each call writes
TargetStatus(kind) ==
    CASE kind = "pause" -> "paused"
      [] kind = "resume" -> "running"
      [] kind = "cancel" -> "cancelled"

CounterOf(kind) ==
    CASE kind = "pause" -> "ops_paused_total"
      [] kind = "resume" -> "ops_resumed_total"
      [] kind = "cancel" -> "ops_cancel_requested_total"

LogOf(kind) ==
    CASE kind = "pause" -> "Paused"
      [] kind = "resume" -> "Resumed"
      [] kind = "cancel" -> "CancelRequested"

\* `if not meta: return False`
NotFound_Never(meta) == FALSE
NotFound(meta) == Falsy(meta)

\* the ids callers pass: one that start_operation has returned, one that
\* no operation has, or one of an operation an earlier process left in the
\* store (its id is known from list_operations)
Callable(o) == pc[o] # "idle" \/ store[Key(o, "meta")] = NoneVal \/ o \notin Startable

\* meta = session.read(op:<id>:meta, None); if not meta: return False
SupervisorRead(c, kind, o) ==
    /\ caller[c].pc = "idle"
    /\ Callable(o)
    /\ ncalls < MaxCalls
    /\ ncalls' = ncalls + 1
    /\ LET meta == SessionRead(Key(o, "meta"), NoneVal) IN
        IF NotFound(meta)
        THEN /\ ret' = Returned(c, kind, o, FALSE)
             /\ UNCHANGED caller
        ELSE /\ caller' = [caller EXCEPT ![c] =
                    [pc |-> "write", kind |-> kind, op |-> o, arg |-> 0, local |-> meta]]
             /\ UNCHANGED ret
    /\ UNCHANGED <<store, pc, loopi, steps, rmeta, metrics, oplog, cancelAt, pauseAt, elsewhere>>

\* history: the runner's position when the first cancel since the last resume lands
CancelMode(o) ==
    IF pc[o] = "wait" THEN "wait"
    ELSE IF /\ StatusOf(SessionRead(Key(o, "meta"), EmptyDict)) = "running"
            /\ (pc[o] = "check" \/ (pc[o] = "work" /\ loopi[o] + 1 < steps[o]))
         THEN "run"
         ELSE "other"

StoredStep(o) ==
    LET p == SessionRead(Key(o, "progress"), EmptyDict)
    IN  IF "step" \in DOMAIN p THEN p["step"] ELSE 0

CancelHistory(kind, o) ==
    CASE kind = "resume" -> NoCancel
      [] kind = "cancel" /\ cancelAt[o].mode = "none" ->
            [mode |-> CancelMode(o), step |-> StoredStep(o)]
      [] OTHER -> cancelAt[o]

\* history: the stored step when a pause lands on an operation whose stored
\* status is running; forgotten at the next resume
PauseHistory(kind, o) ==
    CASE kind = "resume" -> NoPause
      [] /\ kind = "pause" /\ ~pauseAt[o].on
         /\ StatusOf(SessionRead(Key(o, "meta"), EmptyDict)) = "running" ->
            [on |-> TRUE, step |-> StoredStep(o)]
      [] OTHER -> pauseAt[o]

\* meta["status"] = <target> on the dict the call read
WithStatus_Toggle(meta, kind) ==
    IF StatusOf(meta) = TargetStatus(kind)
    THEN DictSet(meta, "status", IF kind = "pause" THEN "running" ELSE "paused")
    ELSE DictSet(meta, "status", TargetStatus(kind))
\* a call that writes a new dict holding nothing but the status
WithStatus_Only(meta, kind) == [status |-> TargetStatus(kind)]
WithStatus(meta, kind) == DictSet(meta, "status", TargetStatus(kind))

\* meta["status"] = <target>; session.write(op:<id>:meta, meta); inc; log; return True
SupervisorWrite(c, kind) ==
    /\ caller[c].pc = "write"
    /\ caller[c].kind = kind
    /\ LET o == caller[c].op IN
        /\ store' = SessionWrite(Key(o, "meta"), WithStatus(caller[c].local, kind))
        /\ metrics' = IncCounter(CounterOf(kind))
        /\ oplog' = [oplog EXCEPT ![o] = @ \cup {LogOf(kind)}]
        /\ cancelAt' = [cancelAt EXCEPT ![o] = CancelHistory(kind, o)]
        /\ pauseAt' = [pauseAt EXCEPT ![o] = PauseHistory(kind, o)]
        /\ caller' = [caller EXCEPT ![c] = IdleCaller]
        /\ ret' = Returned(c, kind, o, TRUE)
    /\ UNCHANGED <<pc, loopi, steps, rmeta, ncalls, elsewhere>>

pause_operation(c) ==
    (\E o \in OpIds : SupervisorRead(c, "pause", o)) \/ SupervisorWrite(c, "pause")

resume_operation(c) ==
    (\E o \in OpIds : SupervisorRead(c, "resume", o)) \/ SupervisorWrite(c, "resume")

cancel_operation(c) ==
    (\E o \in OpIds : SupervisorRead(c, "cancel", o)) \/ SupervisorWrite(c, "cancel")

\* ------------------------------------------------------------- _simulate_task
\* top of `for i in range(steps)`: st = read meta; paused -> wait loop, else work
RunnerCheck(o) ==
    /\ pc[o] = "check"
    /\ LET st == SessionRead(Key(o, "meta"), EmptyDict) IN
        IF StatusOf(st) = "paused"
        THEN /\ pc' = [pc EXCEPT ![o] = "wait"]
             /\ oplog' = [oplog EXCEPT ![o] = @ \cup {"TaskPaused"}]
        ELSE /\ pc' = [pc EXCEPT ![o] = "work"]
             /\ UNCHANGED oplog
    /\ UNCHANGED <<store, loopi, steps, rmeta, caller, ret, metrics, ncalls, cancelAt, pauseAt, elsewhere>>

\* one poll of the wait loop: sleep(0.5); st = read meta; running -> break;
\* cancelled -> about to write the Result; anything else -> poll again
RunnerPoll(o) ==
    /\ pc[o] = "wait"
    /\ LET st == SessionRead(Key(o, "meta"), EmptyDict) IN
        CASE StatusOf(st) = "running" ->
                /\ pc' = [pc EXCEPT ![o] = "work"]
                /\ oplog' = [oplog EXCEPT ![o] = @ \cup {"TaskResumed"}]
          [] StatusOf(st) = "cancelled" ->
                /\ pc' = [pc EXCEPT ![o] = "cancel_result"]
                /\ oplog' = [oplog EXCEPT ![o] = @ \cup {"TaskCancelled"}]
          [] OTHER -> UNCHANGED <<pc, oplog>>
    /\ UNCHANGED <<store, loopi, steps, rmeta, caller, ret, metrics, ncalls, cancelAt, pauseAt, elsewhere>>

\* the cancelled branch without its `return`: the loop goes on
RunnerCancelResult_NoReturn(o) ==
    /\ pc[o] = "cancel_result"
    /\ store' = SessionWrite(Key(o, "result"), [status |-> "cancelled"])
    /\ metrics' = IncCounter("ops_cancelled_total")
    /\ pc' = [pc EXCEPT ![o] = "work"]
    /\ UNCHANGED <<loopi, steps, rmeta, caller, ret, ncalls, oplog, cancelAt, pauseAt, elsewhere>>

\* session.write(op:<id>:result, {"status": "cancelled"}); inc ops_cancelled_total; return
RunnerCancelResult(o) ==
    /\ pc[o] = "cancel_result"
    /\ store' = SessionWrite(Key(o, "result"), [status |-> "cancelled"])
    /\ metrics' = IncCounter("ops_cancelled_total")
    /\ pc' = [pc EXCEPT ![o] = "done"]
    /\ UNCHANGED <<loopi, steps, rmeta, caller, ret, ncalls, oplog, cancelAt, pauseAt, elsewhere>>

\* the Progress dict the runner writes after unit i
ProgressAfter_OffByOne(i, n) == [step |-> i, total |-> n]
ProgressAfter(i, n) == [step |-> i + 1, total |-> n]

\* the unit of work without its heartbeat
RunnerWork_NoHeartbeat(o) ==
    /\ pc[o] = "work"
    /\ store' = SessionWrite(Key(o, "progress"), ProgressAfter(loopi[o], steps[o]))
    /\ loopi' = [loopi EXCEPT ![o] = @ + 1]
    /\ pc' = [pc EXCEPT ![o] = IF loopi[o] + 1 < steps[o] THEN "check" ELSE "result"]
    /\ UNCHANGED <<steps, rmeta, metrics, caller, ret, ncalls, oplog, cancelAt, pauseAt, elsewhere>>

\* sleep(1); session.write(op:<id>:progress, {"step": i + 1, "total": steps}); heartbeat
RunnerWork(o) ==
    /\ pc[o] = "work"
    /\ store' = SessionWrite(Key(o, "progress"), ProgressAfter(loopi[o], steps[o]))
    /\ metrics' = IncCounter("ops_heartbeat_total")
    /\ loopi' = [loopi EXCEPT ![o] = @ + 1]
    /\ pc' = [pc EXCEPT ![o] = IF loopi[o] + 1 < steps[o] THEN "check" ELSE "result"]
    /\ UNCHANGED <<steps, rmeta, caller, ret, ncalls, oplog, cancelAt, pauseAt, elsewhere>>

\* session.write(op:<id>:result, {"status": "finished", "completed_at": now})
RunnerResult(o) ==
    /\ pc[o] = "result"
    /\ \E now \in Times :
        store' = SessionWrite(Key(o, "result"), [status |-> "finished", completed_at |-> now])
    /\ pc' = [pc EXCEPT ![o] = "read_meta"]
    /\ UNCHANGED <<loopi, steps, rmeta, caller, ret, metrics, ncalls, oplog, cancelAt, pauseAt, elsewhere>>

\* meta = session.read(op:<id>:meta, {})
RunnerReadMeta(o) ==
    /\ pc[o] = "read_meta"
    /\ rmeta' = [rmeta EXCEPT ![o] = SessionRead(Key(o, "meta"), EmptyDict)]
    /\ pc' = [pc EXCEPT ![o] = "write_meta"]
    /\ UNCHANGED <<store, loopi, steps, caller, ret, metrics, ncalls, oplog, cancelAt, pauseAt, elsewhere>>

\* meta["status"] = "finished"; session.write(op:<id>:meta, meta); inc ops_finished_total
RunnerWriteMeta(o) ==
    /\ pc[o] = "write_meta"
    /\ store' = SessionWrite(Key(o, "meta"), DictSet(rmeta[o], "status", "finished"))
    /\ metrics' = IncCounter("ops_finished_total")
    /\ oplog' = [oplog EXCEPT ![o] = @ \cup {"TaskFinished"}]
    /\ rmeta' = [rmeta EXCEPT ![o] = NoneVal]
    /\ pc' = [pc EXCEPT ![o] = "done"]
    /\ UNCHANGED <<loopi, steps, caller, ret, ncalls, cancelAt, pauseAt, elsewhere>>

_simulate_task(o) ==
    \/ RunnerCheck(o)
    \/ RunnerPoll(o)
    \/ RunnerCancelResult(o)
    \/ RunnerWork(o)
    \/ RunnerResult(o)
    \/ RunnerReadMeta(o)
    \/ RunnerWriteMeta(o)

\* ------------------------------------------------------------- list_operations
\* list_operations() putting "unknown" in the place of a row it cannot decode
list_operations_Unknown ==
    LET Shown(v) == IF "str" \in DOMAIN v THEN [str |-> "unknown"] ELSE v
    IN  [o \in {p \in OpIds : store[Key(p, "meta")] # NoneVal} |->
            [meta |-> Shown(store[Key(o, "meta")]),
             progress |-> Shown(SessionRead(Key(o, "progress"), NoneVal)),
             result |-> Shown(SessionRead(Key(o, "result"), NoneVal))]]

\* the mapping list_operations() returns when it reads the store in one state
list_operations ==
    [o \in {p \in OpIds : store[Key(p, "meta")] # NoneVal} |->
        [meta |-> store[Key(o, "meta")],
         progress |-> SessionRead(Key(o, "progress"), NoneVal),
         result |-> SessionRead(Key(o, "result"), NoneVal)]]

\* ------------------------------------------------------------- specification
CallerStep(c) ==
    \/ start_operation(c)
    \/ pause_operation(c)
    \/ resume_operation(c)
    \/ cancel_operation(c)

Next ==
    \/ \E c \in Callers : CallerStep(c)
    \/ \E o \in OpIds : _simulate_task(o)

Spec == Init /\ [][Next]_vars

\* a call in flight on a caller thread runs to its return
CallInFlight(c) ==
    \/ StartWriteProgress(c)
    \/ StartSpawn(c)
    \/ \E kind \in SupervisorKinds : SupervisorWrite(c, kind)

\* threads are scheduled: a runner thread and a call in flight keep taking steps
\* (no fairness on callers making new calls)
FairSpec ==
    /\ Spec
    /\ \A o \in OpIds : WF_vars(_simulate_task(o))
    /\ \A c \in Callers : WF_vars(CallInFlight(c))

\* ------------------------------------------------------------- views of one operation
HasMeta(o) == store[Key(o, "meta")] # NoneVal
HasProgress(o) == store[Key(o, "progress")] # NoneVal
HasResult(o) == store[Key(o, "result")] # NoneVal
\* Metadata status, "none" while there is no Metadata record
Status(o) == StatusOf(SessionRead(Key(o, "meta"), EmptyDict))
\* Result status, "none" while there is no Result record
ResultStatus(o) == StatusOf(SessionRead(Key(o, "result"), EmptyDict))
Step(o) == store[Key(o, "progress")]["step"]
Total(o) == store[Key(o, "progress")]["total"]

\* ------------------------------------------------------------- a failing runner
\* a store call or the unit of work raises inside the loop of _simulate_task:
\* the function has no try/except, the exception ends the thread, nothing
\* more is written
RunnerFail(o) ==
    /\ pc[o] \in {"check", "wait", "work", "cancel_result"}
    /\ pc' = [pc EXCEPT ![o] = "failed"]
    /\ UNCHANGED <<store, loopi, steps, rmeta, caller, ret, metrics, ncalls, oplog, cancelAt, pauseAt, elsewhere>>

FailNext ==
    \/ Next
    \/ \E o \in OpIds : RunnerFail(o)

\* the operation manager with store calls that can raise in the runner
FailSpec == Init /\ [][FailNext]_vars

\* ------------------------------------------------------------- SQLiteSession on its own
\* Python values handed to write(): type, kind of the dict keys, content
PyNone == [t |-> "none", k |-> "-", v |-> "null"]
PyValues ==
    {PyNone,
     [t |-> "int", k |-> "-", v |-> "7"],
     [t |-> "str", k |-> "-", v |-> "a"],
     [t |-> "list", k |-> "-", v |-> "1,2"],
     [t |-> "tuple", k |-> "-", v |-> "1,2"],
     [t |-> "dict", k |-> "str", v |-> "1:a"],
     [t |-> "dict", k |-> "int", v |-> "1:a"],
     [t |-> "object", k |-> "-", v |-> "obj"]}
\* the default argument of read()
PyDefaults == {PyNone, [t |-> "int", k |-> "-", v |-> "7"]}
StoreKeys == {"k1", "k2"}

\* no row under the key / no write(key, ...) yet
NoRow == [j |-> "norow", k |-> "-", v |-> "-"]
Never == [t |-> "never", k |-> "-", v |-> "-"]

\* json.dumps(value, default=str): the JSON text, by kind of JSON value.
\* A tuple is written as an array, dict keys are written as strings, a value
\* json cannot encode is written as the string str(value).
JsonDumps(value) ==
    CASE value.t = "none" -> [j |-> "null", k |-> "-", v |-> value.v]
      [] value.t = "int" -> [j |-> "number", k |-> "-", v |-> value.v]
      [] value.t = "str" -> [j |-> "string", k |-> "-", v |-> value.v]
      [] value.t \in {"list", "tuple"} -> [j |-> "array", k |-> "-", v |-> value.v]
      [] value.t = "dict" -> [j |-> "object", k |-> "str", v |-> value.v]
      [] value.t = "object" -> [j |-> "string", k |-> "-", v |-> value.v]

\* json.loads(text) with the fallback of read() and all(): text json cannot
\* decode comes back as the text itself, a str
JsonLoads(text) ==
    CASE text.j = "null" -> PyNone
      [] text.j = "number" -> [t |-> "int", k |-> "-", v |-> text.v]
      [] text.j = "string" -> [t |-> "str", k |-> "-", v |-> text.v]
      [] text.j = "array" -> [t |-> "list", k |-> "-", v |-> text.v]
      [] text.j = "object" -> [t |-> "dict", k |-> "str", v |-> text.v]
      [] OTHER -> [t |-> "str", k |-> "-", v |-> text.v]

\* SQLiteSession(): an empty table
StoreInit ==
    /\ ManagerInit
    /\ db = [key \in StoreKeys |-> NoRow]
    /\ written = [key \in StoreKeys |-> Never]
    /\ got = NoCall
    /\ AgentIdle

\* write(key, value): INSERT ... ON CONFLICT(key) DO UPDATE
Write(key, value) ==
    /\ db' = [db EXCEPT ![key] = JsonDumps(value)]
    /\ written' = [written EXCEPT ![key] = value]
    /\ got' = [op |-> "write"]
    /\ UNCHANGED <<managerVars, agentVars>>

\* read(key, default)
Read(key, default) ==
    /\ got' = [op |-> "read", key |-> key, default |-> default,
               value |-> IF db[key] = NoRow THEN default ELSE JsonLoads(db[key])]
    /\ UNCHANGED <<db, written, managerVars, agentVars>>

\* all()
All ==
    /\ got' = [op |-> "all",
               value |-> [key \in {x \in StoreKeys : db[x] # NoRow} |-> JsonLoads(db[key])]]
    /\ UNCHANGED <<db, written, managerVars, agentVars>>

StoreNext ==
    \/ \E key \in StoreKeys, value \in PyValues : Write(key, value)
    \/ \E key \in StoreKeys, default \in PyDefaults : Read(key, default)
    \/ All

StoreSpec == StoreInit /\ [][StoreNext]_vars

\* ------------------------------------------------------------- list_operations on a damaged store
\* a Python str
PyStr(x) == [str |-> x]
\* a row whose text json.loads rejects: read() and all() hand back the text itself
RawText == PyStr("{garbage")
Unknown == PyStr("unknown")

\* the three records of an operation as the manager leaves them in the store:
\* none, just started, paused midway, finished, cancelled while paused
RestRecords ==
    {[meta |-> NoneVal, progress |-> NoneVal, result |-> NoneVal],
     [meta |-> [status |-> "running", duration |-> 2, created_at |-> 1],
      progress |-> [step |-> 0, total |-> 2], result |-> NoneVal],
     [meta |-> [status |-> "paused", duration |-> 2, created_at |-> 1],
      progress |-> [step |-> 1, total |-> 2], result |-> NoneVal],
     [meta |-> [status |-> "finished", duration |-> 2, created_at |-> 1],
      progress |-> [step |-> 2, total |-> 2],
      result |-> [status |-> "finished", completed_at |-> 1]],
     [meta |-> [status |-> "cancelled", duration |-> 2, created_at |-> 1],
      progress |-> [step |-> 1, total |-> 2], result |-> [status |-> "cancelled"]]}

\* a store the manager has written, read by a process with no runner alive
ListInit ==
    /\ \E recs \in [OpIds -> RestRecords] :
          store = [k \in Keys |-> recs[k[1]][k[2]]]
    /\ written = store
    /\ db = NoTable /\ got = NoCall
    /\ ManagerIdle
    /\ AgentIdle

\* the text of one row is damaged outside the program
CorruptRow(k) ==
    /\ store[k] \notin {NoneVal, RawText}
    /\ store' = [store EXCEPT ![k] = RawText]
    /\ UNCHANGED <<pc, loopi, steps, rmeta, caller, ret, metrics, ncalls, oplog, cancelAt, pauseAt, elsewhere>>

ListNext == \E k \in Keys : CorruptRow(k)

ListSpec == ListInit /\ [][ListNext]_vars

\* ------------------------------------------------------------- OpsCoordinatorAgent
\* requests: an id, whether the task text holds "parallel", and the branch of
\* perform() the task text selects ("repo", "execute"/"run", anything else)
Requests == [id : RequestIds, parallel : BOOLEAN, kind : {"repo", "exec", "sim"}]

\* what perform() can come to for worker w: the result dicts it can return,
\* and whether it can raise.  gh.search_issues returns the items, or [] on a
\* non-200 answer, and lets the exceptions of requests.get through;
\* exec_tool.run catches its exceptions; the simulated branch only sleeps.
PerformResults(w, kind) ==
    CASE kind = "repo" -> {[worker |-> w, type |-> "github_search", issues_count |-> n] : n \in {0, 1}}
      [] kind = "exec" -> {[worker |-> w, type |-> "exec", output |-> "hello from exec"]}
      [] OTHER -> {[worker |-> w, type |-> "simulated", status |-> "done"]}
PerformCanRaise(kind) == kind = "repo"

\* handle_request(request) up to the point where it delegates
HandleRequest(req) ==
    /\ coord.pc \in {"idle", "returned", "raised"}
    /\ request' = req
    /\ results' = <<>>
    /\ wthread' = [w \in Workers |-> "none"]
    /\ out' = NoneVal
    /\ coord' = [pc |-> IF req.parallel THEN "start_threads" ELSE "sequential", i |-> 1]
    /\ UNCHANGED <<asession, managerVars, storeVars>>

\* for w in self.workers: t = Thread(target=run_worker, args=(w,)); t.start()
StartThread ==
    /\ coord.pc = "start_threads"
    /\ wthread' = [wthread EXCEPT ![WorkerOrder[coord.i]] = "running"]
    /\ coord' = IF coord.i < Len(WorkerOrder)
                 THEN [coord EXCEPT !.i = @ + 1]
                 ELSE [pc |-> "join", i |-> 1]
    /\ UNCHANGED <<request, results, asession, out, managerVars, storeVars>>

\* run_worker, first half: r = w.perform(request), which writes <name>-last
\* and returns, or raises and ends the thread
WorkerPerform(w) ==
    /\ wthread[w] = "running"
    /\ \/ \E r \in PerformResults(w, request.kind) :
            /\ asession' = [asession EXCEPT ![LastKey(w)] = r]
            /\ wthread' = [wthread EXCEPT ![w] = "performed"]
       \/ /\ PerformCanRaise(request.kind)
          /\ wthread' = [wthread EXCEPT ![w] = "died"]
          /\ UNCHANGED asession
    /\ UNCHANGED <<request, coord, results, out, managerVars, storeVars>>

\* run_worker, second half: with res_lock: results.append(r)
WorkerAppend(w) ==
    /\ wthread[w] = "performed"
    /\ results' = Append(results, asession[LastKey(w)])
    /\ wthread' = [wthread EXCEPT ![w] = "done"]
    /\ UNCHANGED <<request, coord, asession, out, managerVars, storeVars>>

\* for t in threads: t.join()
JoinThreads ==
    /\ coord.pc = "join"
    /\ \A w \in Workers : wthread[w] \in {"done", "died"}
    /\ coord' = [pc |-> "persist", i |-> 0]
    /\ UNCHANGED <<request, wthread, results, asession, out, managerVars, storeVars>>

\* sequential delegation: r = w.perform(request); results.append(r)
SequentialPerform ==
    /\ coord.pc = "sequential"
    /\ LET w == WorkerOrder[coord.i] IN
        \/ \E r \in PerformResults(w, request.kind) :
            /\ asession' = [asession EXCEPT ![LastKey(w)] = r]
            /\ results' = Append(results, r)
            /\ wthread' = [wthread EXCEPT ![w] = "done"]
            /\ coord' = IF coord.i < Len(WorkerOrder)
                         THEN [coord EXCEPT !.i = @ + 1]
                         ELSE [pc |-> "persist", i |-> 0]
        \/ /\ PerformCanRaise(request.kind)
           /\ wthread' = [wthread EXCEPT ![w] = "died"]
           /\ coord' = [pc |-> "raised", i |-> 0]
           /\ UNCHANGED <<asession, results>>
    /\ UNCHANGED <<request, out, managerVars, storeVars>>

\* out = {...}; session.write(f"req-{id}", out); return out
PersistAndReturn ==
    /\ coord.pc = "persist"
    /\ LET o == [request_id |-> request.id,
                 mode |-> IF request.parallel THEN "parallel" ELSE "sequential",
                 results |-> results] IN
        /\ asession' = [asession EXCEPT ![ReqKey(request.id)] = o]
        /\ out' = o
    /\ coord' = [pc |-> "returned", i |-> 0]
    /\ UNCHANGED <<request, wthread, results, managerVars, storeVars>>

handle_request ==
    \/ \E req \in Requests : HandleRequest(req)
    \/ StartThread
    \/ JoinThreads
    \/ SequentialPerform
    \/ PersistAndReturn

AgentNext ==
    \/ handle_request
    \/ \E w \in Workers : WorkerPerform(w) \/ WorkerAppend(w)

AgentInit ==
    /\ ManagerInit
    /\ db = NoTable /\ written = NoTable /\ got = NoCall
    /\ AgentIdle

AgentSpec == AgentInit /\ [][AgentNext]_vars

\* ------------------------------------------------------------- two operations
\* the manager imported on a store in which an earlier process left the
\* three records of a finished operation 2 (the store persists between
\* runs); operation 1 is started in this process
IsoInit ==
    /\ \E rec \in {r \in RestRecords : StatusOf(r.meta) = "finished"} :
          store = [k \in Keys |-> IF k[1] \in Startable THEN NoneVal ELSE rec[k[2]]]
    /\ ManagerIdle
    /\ db = NoTable /\ written = NoTable /\ got = NoCall
    /\ AgentIdle

IsoSpec == IsoInit /\ [][Next]_vars

\* ------------------------------------------------------------- C1
\* C1: the Metadata status changes only along running -> paused,
\* paused -> running, running -> cancelled, paused -> cancelled and
\* running -> finished; cancelled and finished are never left.  (The write
\* that creates the record is not a change of status.)
AllowedTransitions ==
    {<<"running", "paused">>, <<"paused", "running">>, <<"running", "cancelled">>,
     <<"paused", "cancelled">>, <<"running", "finished">>}

C1_StatusTransitions ==
    [][\A o \in OpIds :
          (HasMeta(o) /\ Status(o)' # Status(o)) => <<Status(o), Status(o)'>> \in AllowedTransitions]_vars

\* ------------------------------------------------------------- C2
\* C2: after a cancel that lands on a running operation whose runner still
\* has an iteration boundary ahead, the runner counts at most the unit in
\* flight, and when it has terminated the Result says cancelled.
C2_CancelRunning ==
    \A o \in OpIds :
        cancelAt[o].mode = "run" =>
            /\ Step(o) <= cancelAt[o].step + 1
            /\ pc[o] = "done" => ResultStatus(o) = "cancelled"

\* ------------------------------------------------------------- C3
\* C3: after a cancel that lands while the runner is blocked in the
\* pause-wait loop, and as long as no resume follows, the Metadata status
\* stays cancelled, Progress.step stays what it was at the cancel, the runner
\* leaves the wait loop only to write the cancelled Result, and when it has
\* terminated the Result says cancelled.
C3_CancelWhilePaused ==
    \A o \in OpIds :
        cancelAt[o].mode = "wait" =>
            /\ Status(o) = "cancelled"
            /\ Step(o) = cancelAt[o].step
            /\ pc[o] \in {"wait", "cancel_result", "done"}
            /\ pc[o] = "done" => ResultStatus(o) = "cancelled"

\* ------------------------------------------------------------- C4
\* C4: in every reachable state a Result record exists if and only if the
\* Metadata status is cancelled or finished.
C4_ResultIffTerminal ==
    \A o \in OpIds : HasResult(o) <=> Status(o) \in {"cancelled", "finished"}

\* ------------------------------------------------------------- C5
\* C5: for every duration the persisted Progress satisfies
\* 0 <= step <= total in every reachable state, and step never decreases.
C5_StepBounds ==
    /\ [](\A o \in OpIds : HasProgress(o) => (0 <= Step(o) /\ Step(o) <= Total(o)))
    /\ [][\A o \in OpIds : HasProgress(o) => Step(o)' >= Step(o)]_vars

\* ------------------------------------------------------------- C6
\* C6: every write that increases Progress.step happens in a state where the
\* Metadata status is running.
C6_AdvanceOnlyRunning ==
    [][\A o \in OpIds :
          (HasProgress(o) /\ Step(o)' > Step(o)) => Status(o) = "running"]_vars

\* ------------------------------------------------------------- C7
\* the operation is reported finished with all its steps counted
Finished(o) ==
    /\ Status(o) = "finished"
    /\ ResultStatus(o) = "finished"
    /\ HasProgress(o) /\ Step(o) = Total(o)

\* a cancel has been requested for o, or a cancel call on o is in flight
CancelCalled(o) ==
    \/ "CancelRequested" \in oplog[o]
    \/ \E c \in Callers : caller[c].pc = "write" /\ caller[c].kind = "cancel" /\ caller[c].op = o

\* C7: every Progress write of the runner raises the stored step by exactly
\* one (so 1..total are written once each, in order, and the count never
\* restarts), and an operation that is never cancelled and, after its pauses
\* and resumes, is left not paused, reaches status finished with a finished
\* Result and step = total.
C7_ResumeCompletes ==
    /\ [][\A o \in OpIds :
            (HasProgress(o) /\ store[Key(o, "progress")]' # store[Key(o, "progress")])
                => Step(o)' = Step(o) + 1]_vars
    /\ \A o \in OpIds :
            ([](~CancelCalled(o)) /\ <>[](HasMeta(o) /\ Status(o) # "paused")) => <>Finished(o)

\* an operation that sat in the pause-wait loop, was resumed and finished its two steps
C7_Witness ==
    /\ Finished(1) /\ Total(1) = 2
    /\ {"TaskPaused", "TaskResumed"} \subseteq oplog[1]
    /\ ~CancelCalled(1)

\* ------------------------------------------------------------- C8
\* a pause or cancel has been requested for o, or such a call on o is in flight
PauseOrCancelCalled(o) ==
    \/ oplog[o] \cap {"Paused", "CancelRequested"} # {}
    \/ \E c \in Callers :
          caller[c].pc = "write" /\ caller[c].kind \in {"pause", "cancel"} /\ caller[c].op = o

\* what list_operations() reports for o is finished, Metadata and Result alike
ListedFinished(o) ==
    /\ o \in DOMAIN list_operations
    /\ StatusOf(list_operations[o].meta) = "finished"
    /\ list_operations[o].result # NoneVal
    /\ StatusOf(list_operations[o].result) = "finished"

\* C8: with runner and calls scheduled fairly, every started operation that
\* no pause or cancel call touches is eventually listed as finished.
C8_StartedFinishes ==
    \A o \in OpIds : <>HasMeta(o) => <>(PauseOrCancelCalled(o) \/ ListedFinished(o))

\* ------------------------------------------------------------- C9
\* C9: a pause, resume or cancel call on an id with no Metadata record
\* returns false and changes no key of the store; a call on an id with a
\* Metadata record goes on to its write and returns true.
C9_NotFound ==
    [][/\ ncalls' = ncalls + 1 =>
            \/ /\ \E c \in Callers :
                     /\ caller'[c] # caller[c]
                     /\ caller'[c].pc = "write"
                     /\ HasMeta(caller'[c].op)
               /\ UNCHANGED <<store, ret>>
            \/ /\ caller' = caller
               /\ ret'.kind \in SupervisorKinds
               /\ ret'.ok = FALSE
               /\ ~HasMeta(ret'.op)
               /\ store' = store
       /\ \A c \in Callers :
            (caller[c].pc = "write" /\ caller'[c].pc = "idle") =>
                /\ HasMeta(caller[c].op)
                /\ ret' = Returned(c, caller[c].kind, caller[c].op, TRUE)
                /\ \A k \in Keys : k # Key(caller[c].op, "meta") => store'[k] = store[k]]_vars

\* a call on the unknown id 2 has just returned false while operation 1 has its records
C9_Witness ==
    /\ ret.kind \in SupervisorKinds /\ ret.op = 2 /\ ret.ok = FALSE
    /\ HasMeta(1) /\ HasProgress(1)
    /\ \A suffix \in Suffixes : store[Key(2, suffix)] = NoneVal

\* ------------------------------------------------------------- C10
\* C10: whatever the status was, also when it already was the target, a
\* pause call that reaches its write leaves the status paused and a resume
\* call leaves it running, and the call returns true.
C10_Idempotent ==
    [][\A c \in Callers, o \in OpIds :
          (/\ caller[c].pc = "write" /\ caller'[c].pc = "idle"
           /\ caller[c].op = o /\ caller[c].kind \in {"pause", "resume"})
              => /\ Status(o)' = TargetStatus(caller[c].kind)
                 /\ ret' = Returned(c, caller[c].kind, o, TRUE)]_vars

\* the second of two pauses in a row on an operation that was running has returned true
C10_Witness ==
    /\ ret.kind = "pause" /\ ret.ok /\ ret.op = 1
    /\ metrics["ops_paused_total"] = 2
    /\ metrics["ops_resumed_total"] = 0 /\ metrics["ops_cancel_requested_total"] = 0
    /\ Status(1) = "paused"
    /\ HasProgress(1) /\ Step(1) >= 1

\* ------------------------------------------------------------- C11
\* no pause, resume or cancel has written o's Metadata
Untouched(o) == oplog[o] \cap {"Paused", "Resumed", "CancelRequested"} = {}

\* C11: once start() has returned an id, and until the runner has completed
\* a unit of work or a pause, resume or cancel has written, list() contains
\* the id with meta.status running, progress.step 0 and progress.total equal
\* to the duration start() was given, whatever the duration and the metadata.
C11_StartListed ==
    \A o \in OpIds :
        (pc[o] # "idle" /\ loopi[o] = 0 /\ Untouched(o)) =>
            /\ o \in DOMAIN list_operations
            /\ StatusOf(list_operations[o].meta) = "running"
            /\ list_operations[o].progress # NoneVal
            /\ list_operations[o].progress["step"] = 0
            /\ list_operations[o].progress["total"] = list_operations[o].meta["duration"]

\* ------------------------------------------------------------- C12
\* C12: in every state, the states between the steps of start() included,
\* an operation that has a Progress record has a Metadata record, and an
\* operation whose runner has been spawned has both.
C12_ProgressHasMeta ==
    /\ \A o \in OpIds : HasProgress(o) => HasMeta(o)
    /\ \A o \in OpIds : pc[o] # "idle" => (HasMeta(o) /\ HasProgress(o))

\* start() has written both initial records and has not yet spawned the runner
C12_Witness ==
    /\ \E c \in Callers : caller[c].pc = "start_spawn" /\ caller[c].op = 1
    /\ HasProgress(1) /\ HasMeta(1)
    /\ pc[1] = "idle"

\* ------------------------------------------------------------- C13
\* C13: the Result record is written only by a step of the operation's own
\* runner at one of its two Result writes, and once it exists no step -- of
\* the runner, or of a pause, resume or cancel call, which still return true
\* -- changes the Result or the Progress record again.
C13_ResultWrittenOnce ==
    [][\A o \in OpIds :
          /\ store[Key(o, "result")]' # store[Key(o, "result")] =>
                (pc[o] \in {"cancel_result", "result"} /\ pc[o]' # pc[o])
          /\ HasResult(o) =>
                /\ store[Key(o, "result")]' = store[Key(o, "result")]
                /\ store[Key(o, "progress")]' = store[Key(o, "progress")]]_vars

\* a resume on an operation whose runner has terminated has returned true
C13_Witness ==
    /\ ret.kind = "resume" /\ ret.ok /\ ret.op = 1
    /\ pc[1] = "done" /\ HasResult(1)
    /\ Status(1) = "running"

\* ------------------------------------------------------------- C14
\* C14: after any sequence of writes, read(key, default) returns the value
\* of the latest write(key, ...), or default when there was none, and all()
\* returns exactly the keys written, each with the value of its latest write.
C14_ReadLatestWrite ==
    /\ got.op = "read" =>
          got.value = (IF written[got.key] = Never THEN got.default ELSE written[got.key])
    /\ got.op = "all" =>
          /\ DOMAIN got.value = {key \in StoreKeys : written[key] # Never}
          /\ \A key \in DOMAIN got.value : got.value[key] = written[key]

\* ------------------------------------------------------------- C15
\* C15: when the runner of an operation has died of an exception raised in
\* its work loop, the operation has a Result record, and that Result marks
\* the failure (it says neither finished nor cancelled).
C15_FailureResult ==
    \A o \in OpIds :
        pc[o] = "failed" =>
            (HasResult(o) /\ ResultStatus(o) \notin {"none", "finished", "cancelled"})

\* ------------------------------------------------------------- C16
\* the row under k is damaged
Corrupt(k) == store[k] = RawText
\* an operation none of whose rows is damaged, and one with a damaged row
Intact(o) == \A suffix \in Suffixes : ~Corrupt(Key(o, suffix))

\* C16 as claimed: list() has an entry for every operation that has a
\* Metadata row, every record whose row is not damaged is reported as the
\* manager wrote it, and a damaged record is reported as "unknown".
C16_ListReportsUnknown ==
    \A o \in OpIds : written[Key(o, "meta")] # NoneVal =>
        /\ o \in DOMAIN list_operations
        /\ \A suffix \in Suffixes :
              list_operations[o][suffix] =
                  IF Corrupt(Key(o, suffix)) THEN Unknown ELSE written[Key(o, suffix)]

\* C16 amended: the same, with a damaged record reported as the raw text of
\* its row.
C16_ListReportsRawText ==
    \A o \in OpIds : written[Key(o, "meta")] # NoneVal =>
        /\ o \in DOMAIN list_operations
        /\ \A suffix \in Suffixes :
              list_operations[o][suffix] =
                  IF Corrupt(Key(o, suffix)) THEN RawText ELSE written[Key(o, suffix)]

\* operation 1 has a damaged Progress row, operation 2 is finished and intact
C16_Witness ==
    /\ Corrupt(Key(1, "progress")) /\ ~Corrupt(Key(1, "meta"))
    /\ Intact(2) /\ 2 \in DOMAIN list_operations
    /\ StatusOf(list_operations[2].meta) = "finished"
    /\ list_operations[1].progress = RawText

\* ------------------------------------------------------------- C17
\* C17: whenever handle_request has returned, in sequential and in parallel
\* mode, the record it returned carries the request's id and exactly one
\* result of each worker, no worker thread is still running, and the session
\* holds that record under req-<id>.
C17_HandleRequest ==
    coord.pc = "returned" =>
        /\ out # NoneVal
        /\ out.request_id = request.id
        /\ Len(out.results) = Cardinality(Workers)
        /\ {out.results[i].worker : i \in 1..Len(out.results)} = Workers
        /\ \A w \in Workers : wthread[w] \notin {"running", "performed"}
        /\ asession[ReqKey(request.id)] = out

\* ------------------------------------------------------------- C18
\* C18: the total of an operation's Progress record never changes once
\* start() has written it: every Progress record the runner writes carries
\* the total of the initial record, for every duration.
C18_TotalFixed ==
    [][\A o \in OpIds : HasProgress(o) => Total(o)' = Total(o)]_vars

\* ------------------------------------------------------------- C19
\* C19: from the moment a pause is written on an operation whose status is
\* running until the next resume is written on it, the runner adds at most
\* the unit of work that was in flight: Progress.step is at most one above
\* its value at the pause.
C19_PauseAtBoundary ==
    \A o \in OpIds : pauseAt[o].on => Step(o) <= pauseAt[o].step + 1

\* ------------------------------------------------------------- C20
\* C20: in every state in which the Metadata status of a started operation
\* is finished, its Result record exists and says finished, and its
\* Progress.step equals its Progress.total.
C20_FinishedHasResult ==
    \A o \in OpIds :
        (pc[o] # "idle" /\ Status(o) = "finished") =>
            /\ HasResult(o) /\ ResultStatus(o) = "finished"
            /\ HasProgress(o) /\ Step(o) = Total(o)

\* ------------------------------------------------------------- C21
\* the fields of a Metadata dict other than status
Annotations(meta) == [x \in (DOMAIN meta) \ {"status"} |-> meta[x]]

\* C21: every step that rewrites an existing Metadata record -- the write of
\* a pause, resume or cancel call, or the runner's final update -- leaves
\* duration, created_at and the caller's annotations as they were, and the
\* write of a pause, resume or cancel call changes neither the Progress nor
\* the Result record.
C21_OnlyStatusChanges ==
    [][/\ \A o \in OpIds :
             (HasMeta(o) /\ store[Key(o, "meta")]' # store[Key(o, "meta")]) =>
                 /\ HasMeta(o)'
                 /\ Annotations(store[Key(o, "meta")]') = Annotations(store[Key(o, "meta")])
       /\ \A c \in Callers :
             (caller[c].pc = "write" /\ caller'[c].pc = "idle") =>
                 \A o \in OpIds :
                     /\ store[Key(o, "progress")]' = store[Key(o, "progress")]
                     /\ store[Key(o, "result")]' = store[Key(o, "result")]]_vars

\* an operation started with an annotation was paused, resumed and has
\* finished: calls and runner have rewritten its Metadata, the annotation is there
C21_Witness ==
    /\ pc[1] = "done" /\ Status(1) = "finished"
    /\ {"Paused", "Resumed"} \subseteq oplog[1]
    /\ "test" \in DOMAIN store[Key(1, "meta")]
    /\ store[Key(1, "meta")]["test"] = "yes"

\* ------------------------------------------------------------- C22
\* C22 (one operation is started, so the counters are that operation's):
\* every step that raises Progress.step raises the heartbeat counter by one
\* and no other step raises it; the cancellation counter is raised only by
\* the write of a cancelled Result and the finished counter only by a runner
\* that has written a finished Result; and when the runner has terminated
\* exactly one of the two is 1, the one that names the Result status.
C22_RunnerCounters ==
    /\ [][\A o \in Startable :
            /\ (HasProgress(o) /\ Step(o)' > Step(o)) <=>
                    metrics["ops_heartbeat_total"]' = metrics["ops_heartbeat_total"] + 1
            /\ metrics["ops_heartbeat_total"]' \in
                    {metrics["ops_heartbeat_total"], metrics["ops_heartbeat_total"] + 1}
            /\ metrics["ops_cancelled_total"]' # metrics["ops_cancelled_total"] =>
                    (~HasResult(o) /\ ResultStatus(o)' = "cancelled")
            /\ metrics["ops_finished_total"]' # metrics["ops_finished_total"] =>
                    ResultStatus(o) = "finished"]_vars
    /\ [](\A o \in Startable :
            pc[o] = "done" =>
                /\ metrics["ops_cancelled_total"] = (IF ResultStatus(o) = "cancelled" THEN 1 ELSE 0)
                /\ metrics["ops_finished_total"] = (IF ResultStatus(o) = "finished" THEN 1 ELSE 0)
                /\ metrics["ops_cancelled_total"] + metrics["ops_finished_total"] = 1)

\* a runner that did one unit, was paused and then cancelled, has terminated
C22_Witness ==
    /\ pc[1] = "done" /\ ResultStatus(1) = "cancelled"
    /\ Step(1) = 1
    /\ metrics["ops_heartbeat_total"] = 1
    /\ metrics["ops_cancelled_total"] = 1 /\ metrics["ops_finished_total"] = 0

\* ------------------------------------------------------------- C23
\* C23: in every state in which the runner of an operation has terminated,
\* the status in its Metadata record equals the status in its Result record.
C23_StatusMatchesResult ==
    \A o \in OpIds : pc[o] = "done" => Status(o) = ResultStatus(o)

\* ------------------------------------------------------------- C24
\* the operation a step belongs to: its runner moved, or the call that moved
\* targets it
StepOf(o) ==
    \/ pc[o]' # pc[o]
    \/ \E c \in Callers :
          caller[c]' # caller[c] /\ (caller[c].op = o \/ caller[c]'.op = o)

\* C24: a step of a pause, resume or cancel call on A, of start() for A or
\* of A's runner writes only the records of A -- the Metadata, Progress and
\* Result of every other operation stay as they are -- and what such a step
\* reads, it reads from the Metadata record of A.
C24_Isolation ==
    [][/\ \A k \in Keys : store[k]' # store[k] => StepOf(k[1])
       /\ \A a \in OpIds : \A b \in OpIds \ {a} :
             (StepOf(a) /\ ~StepOf(b)) =>
                 \A suffix \in Suffixes : store[<<b, suffix>>]' = store[<<b, suffix>>]
       /\ \A c \in Callers :
             (caller[c].pc = "idle" /\ caller[c]'.pc = "write") =>
                 caller[c]'.local = store[<<caller[c]'.op, "meta">>]
       /\ \A o \in OpIds :
             (pc[o] = "read_meta" /\ pc[o]' = "write_meta") =>
                 rmeta[o]' = store[<<o, "meta">>]]_vars

\* operation 1 has run to its end and a pause on operation 2 has returned
\* true: each has its own three records, with different statuses
C24_Witness ==
    /\ pc[1] = "done" /\ Status(1) = "finished" /\ ResultStatus(1) = "finished"
    /\ ret.kind = "pause" /\ ret.op = 2 /\ ret.ok
    /\ Status(2) = "paused" /\ ResultStatus(2) = "finished"
    /\ store[<<2, "progress">>] = [step |-> 2, total |-> 2]

====
